---- MODULE Spec2Model ----
(***************************************************************************)
(* Model of calculator.py: FactoryOptimizer.  One run of the program is    *)
(* construction (clean recipes, precalculate rates, build the dependency   *)
(* graph and the build order), then optimize_gpm, then optimize_tiers.     *)
(* Numbers are integers (the recipe data and the configuration are drawn   *)
(* from integers, so every product the code forms is exact).  The MILP     *)
(* solver is the external collaborator: it answers with a status and, when *)
(* Optimal, with any one optimal integer point of the model it was given.  *)
(***************************************************************************)
EXTENDS Integers, Sequences, FiniteSets

VARIABLES recipes, rate_multiplier, factory_level, total_factories,
          effective_rate, gpm_per_unit, dependency_graph, build_order,
          pc, tier_pos, solver_status, gpm_result, tier_result

vars == <<recipes, rate_multiplier, factory_level, total_factories,
          effective_rate, gpm_per_unit, dependency_graph, build_order,
          pc, tier_pos, solver_status, gpm_result, tier_result>>

\* ------------------------------------------------------------------ bounds
MaxFactories == 3
MaxLevel == 2
MaxQty == 2

\* ------------------------------------------------------- program constants
SecondsPerMinute == 60
RateMultiplier == 2
ExemptResource == "Leek"
ExcludedRecipe == "Barrel to Leek"

\* --------------------------------------------------------------- utilities
RECURSIVE Pow(_, _)
Pow(b, e) == IF e <= 0 THEN 1 ELSE b * Pow(b, e - 1)

RECURSIVE SumOver(_, _)
SumOver(f, S) ==
    IF S = {} THEN 0
    ELSE LET x == CHOOSE y \in S : TRUE IN f[x] + SumOver(f, S \ {x})

Range(s) == {s[i] : i \in 1..Len(s)}

IndexOf(s, x) == CHOOSE i \in 1..Len(s) : s[i] = x

Reverse(s) == [i \in 1..Len(s) |-> s[Len(s) + 1 - i]]

EmptyMap == << >>
Single(r, q) == [x \in {r} |-> q]

Qty(m, r) == IF r \in DOMAIN m THEN m[r] ELSE 0

HashOrders(S) ==
    {s \in [1..Cardinality(S) -> S] : \A i, j \in 1..Cardinality(S) : i # j => s[i] # s[j]}

\* ---------------------------------------------------------- recipe registry
\* recipes is the OrderedDict read from recipes.json: a sequence of records in
\* declaration order, names unique.
Names(rs) == [i \in 1..Len(rs) |-> rs[i].name]

NameSet(rs) == {rs[i].name : i \in 1..Len(rs)}

Recipe(rs, n) == rs[CHOOSE i \in 1..Len(rs) : rs[i].name = n]

\* _clean_recipes: del self.recipes["Barrel to Leek"] when present.
CleanRecipes(rs) == SelectSeq(rs, LAMBDA r : r.name # ExcludedRecipe)

\* _precalculate_rates: Effective Rate and GPM of every recipe.
EffectiveRate(r, mult, level) == r.baseRate * Pow(mult, level - 1)

GpmPerUnit(r, mult, level) == EffectiveRate(r, mult, level) * r.goldGain * SecondsPerMinute

\* ----------------------------------------------------------- dependencies
\* Mutant: a recipe's own name is not taken as a dependency.
DependenciesNoSelf(rs, r) ==
    {res \in DOMAIN r.inputs : res \in NameSet(rs) /\ res # r.name}

\* _build_dependency_graph: the inputs of a recipe that are recipe names.
Dependencies(rs, r) == {res \in DOMAIN r.inputs : res \in NameSet(rs)}

DependencyGraph(rs) == [n \in NameSet(rs) |-> Dependencies(rs, Recipe(rs, n))]

\* Iteration over a set of strings follows the hash order of the run: ord is a
\* sequence holding every name once, and a set is walked in that order.
SetIter(S, ord) == SelectSeq(ord, LAMBDA n : n \in S)

RECURSIVE AppendNew(_, _)
AppendNew(s, t) ==
    IF t = << >> THEN s
    ELSE AppendNew(IF Head(t) \in Range(s) THEN s ELSE Append(s, Head(t)), Tail(t))

\* TopologicalSorter(graph): add(node, *predecessors) for every item of the
\* graph; _node2info keeps the nodes in the order they were first mentioned.
RECURSIVE NodeOrder(_, _, _, _)
NodeOrder(graph, decl, ord, acc) ==
    IF decl = << >> THEN acc
    ELSE NodeOrder(graph, Tail(decl), ord,
                   AppendNew(acc, <<Head(decl)>> \o SetIter(graph[Head(decl)], ord)))

\* successors of p, in the order add() appended them.
Successors(graph, decl, p) == SelectSeq(decl, LAMBDA n : p \in graph[n])

\* _find_cycle: depth-first search along successors; a node met again while it
\* is on the current path closes a cycle.
RECURSIVE OnCycle(_, _, _, _)
OnCycle(graph, decl, node, path) ==
    \/ node \in path
    \/ \E s \in Range(Successors(graph, decl, node)) :
          OnCycle(graph, decl, s, path \cup {node})

FindCycle(graph, decl) == \E n \in Range(decl) : OnCycle(graph, decl, n, {})

\* Mutant: a successor becomes ready as soon as one predecessor is done.
RECURSIVE DoneSuccsEager(_, _, _)
DoneSuccsEager(succs, npred, ready) ==
    IF succs = << >> THEN [npred |-> npred, ready |-> ready]
    ELSE LET s == Head(succs)
             np == [npred EXCEPT ![s] = @ - 1]
         IN DoneSuccsEager(Tail(succs), np, Append(ready, s))

\* done(*nodes): every successor of a finished node loses one predecessor and
\* becomes ready when it has none left.
RECURSIVE DoneSuccs(_, _, _)
DoneSuccs(succs, npred, ready) ==
    IF succs = << >> THEN [npred |-> npred, ready |-> ready]
    ELSE LET s == Head(succs)
             np == [npred EXCEPT ![s] = @ - 1]
         IN DoneSuccs(Tail(succs), np, IF np[s] = 0 THEN Append(ready, s) ELSE ready)

RECURSIVE DoneNodes(_, _, _, _, _)
DoneNodes(graph, decl, group, npred, ready) ==
    IF group = << >> THEN [npred |-> npred, ready |-> ready]
    ELSE LET d == DoneSuccs(Successors(graph, decl, Head(group)), npred, ready)
         IN DoneNodes(graph, decl, Tail(group), d.npred, d.ready)

\* static_order after prepare(): get_ready(), yield the group, done(group),
\* while nodes are ready.
RECURSIVE StaticOrderLoop(_, _, _, _, _)
StaticOrderLoop(graph, decl, ready, npred, emitted) ==
    IF ready = << >> THEN emitted
    ELSE LET d == DoneNodes(graph, decl, ready, npred, << >>)
         IN StaticOrderLoop(graph, decl, d.ready, d.npred, emitted \o ready)

StaticOrder(graph, decl, ord) ==
    LET nodes == NodeOrder(graph, decl, ord, << >>)
        npred == [n \in DOMAIN graph |-> Cardinality(graph[n])]
        ready == SelectSeq(nodes, LAMBDA n : npred[n] = 0)
    IN StaticOrderLoop(graph, decl, ready, npred, << >>)

\* ------------------------------------------------------------------ inputs
DeclaredNames == <<"A", "B", "C">>

InputResources == {ExemptResource, "X"} \cup Range(DeclaredNames)

InputChoices ==
    {EmptyMap}
    \cup {Single(r, 1) : r \in InputResources}
    \cup {Single(r, MaxQty) : r \in Range(DeclaredNames)}

\* Two inputs, both names of declared recipes.
PairChoices ==
    {[x \in {r, s} |-> 1] : r, s \in Range(DeclaredNames)} \ {Single(r, 1) : r \in Range(DeclaredNames)}

GoldChoices == {1, 10}

TierChoices == {1, 2}

RateChoices == {1, 2}

\* (Gold Gain, TierMultiplier) of the recipes of the three-recipe family.
ValueChoices == {<<1, 1>>, <<10, 2>>}

MkRecipe(n, ins, outs, rate, gold, tier) ==
    [name |-> n, baseRate |-> rate, goldGain |-> gold, tier |-> tier,
     inputs |-> ins, outputs |-> outs]

BarrelToLeek == MkRecipe(ExcludedRecipe, Single("X", 1), Single(ExemptResource, 1), 1, 10, 1)

NoResult == [isNone |-> TRUE]

InitRun(rs, mult, levels) ==
    /\ recipes = rs
    /\ rate_multiplier = mult
    /\ factory_level \in levels
    /\ total_factories \in 0..MaxFactories
    /\ effective_rate = << >>
    /\ gpm_per_unit = << >>
    /\ dependency_graph = << >>
    /\ build_order = << >>
    /\ pc = "new"
    /\ tier_pos = 0
    /\ solver_status = "none"
    /\ gpm_result = NoResult
    /\ tier_result = NoResult

\* Three recipes, each making the resource of its own name.
InitThree ==
    \E ins \in [1..3 -> (InputChoices \ {Single(ExemptResource, 1)}) \cup PairChoices],
       val \in [1..3 -> ValueChoices] :
        InitRun([i \in 1..3 |-> MkRecipe(DeclaredNames[i], ins[i],
                                         Single(DeclaredNames[i], 1), 1,
                                         val[i][1], val[i][2])],
                RateMultiplier, {MaxLevel})

\* One or two recipes, each making the resource of its own name, with or
\* without the excluded recipe declared first.
InitTwo ==
    \E n \in 1..2 :
      \E ins \in [1..n -> InputChoices], gold \in [1..n -> GoldChoices],
         tier \in [1..n -> TierChoices], barrel \in BOOLEAN :
        InitRun((IF barrel THEN <<BarrelToLeek>> ELSE << >>) \o
                [i \in 1..n |-> MkRecipe(DeclaredNames[i], ins[i],
                                         Single(DeclaredNames[i], 1), 1,
                                         gold[i], tier[i])],
                RateMultiplier, {MaxLevel})

\* A producer of X at tier 1 and a consumer of X at tier 2 that makes Y,
\* declared in either order.
InitChain ==
    \E qa, qb \in 1..MaxQty, ra, rb \in RateChoices, ga, gb \in GoldChoices,
       mult \in 1..RateMultiplier, swap \in BOOLEAN :
        LET a == MkRecipe("A", EmptyMap, Single("X", qa), ra, ga, 1)
            b == MkRecipe("B", Single("X", qb), Single("Y", 1), rb, gb, 2)
        IN InitRun(IF swap THEN <<b, a>> ELSE <<a, b>>, mult, 1..MaxLevel)

Init == InitThree \/ InitTwo \/ InitChain

InitSmall == InitTwo \/ InitChain

\* ------------------------------------------------------- constraint model
\* The keys of resource_balance: every output resource of a recipe and every
\* input resource except the exempt one.
BalanceKeys(rs) ==
    UNION {DOMAIN rs[i].outputs \cup (DOMAIN rs[i].inputs \ {ExemptResource}) : i \in 1..Len(rs)}

\* Mutant: the inputs are not subtracted from the balance.
BalanceCoefOutputsOnly(r, rate, res) == Qty(r.outputs, res) * rate

\* The coefficient of count(n) in resource_balance[res].
BalanceCoef(r, rate, res) ==
    Qty(r.outputs, res) * rate
    - (IF res # ExemptResource THEN Qty(r.inputs, res) * rate ELSE 0)

BalanceExpr(rs, rates, order, res) ==
    [n \in Range(order) |-> BalanceCoef(Recipe(rs, n), rates[n], res)]

\* prob += resource_balance[res] >= 0 for every key but the exempt resource.
ConstrainedResources(rs) == BalanceKeys(rs) \ {ExemptResource}

\* Mutant: the capacity row allows one factory more.
LpModelLooseCapacity(rs, rates, order, objective, capacity) ==
    [names |-> NameSet(rs),
     objective |-> objective,
     capacity |-> capacity + 1,
     balance |-> [res \in ConstrainedResources(rs) |-> BalanceExpr(rs, rates, order, res)]]

\* An LpProblem: the objective and the rows, each a map from recipe name to
\* the coefficient of its variable; capacity is the right side of
\* lpSum(vars.values()) <= total_factories.
LpModel(rs, rates, order, objective, capacity) ==
    [names |-> NameSet(rs),
     objective |-> objective,
     capacity |-> capacity,
     balance |-> [res \in ConstrainedResources(rs) |-> BalanceExpr(rs, rates, order, res)]]

\* Mutant: the problem is built with LpMinimize.
GpmObjectiveMinimize(rs, gpms) == [n \in NameSet(rs) |-> 0 - gpms[n]]

\* optimize_gpm: maximize the sum of vars[name] * GPM.
GpmObjective(rs, gpms) == [n \in NameSet(rs) |-> gpms[n]]

\* optimize_tiers: maximize vars[target_tier] * Effective Rate of the target.
TierObjective(rs, rates, target) == [n \in NameSet(rs) |-> IF n = target THEN rates[n] ELSE 0]

\* ------------------------------------------------------------------ solver
Dot(coef, v) == SumOver([n \in DOMAIN coef |-> coef[n] * v[n]], DOMAIN coef)

TotalCount(v) == SumOver(v, DOMAIN v)

\* The integer points of the model: variables are Integer with lowBound 0.
FeasiblePoints(m) ==
    {v \in [m.names -> 0..(IF m.capacity < 0 THEN 0 ELSE m.capacity)] :
        /\ TotalCount(v) <= m.capacity
        /\ \A res \in DOMAIN m.balance : Dot(m.balance[res], v) >= 0}

OptimalPoints(m) ==
    LET F == FeasiblePoints(m)
    IN {v \in F : \A w \in F : Dot(m.objective, w) <= Dot(m.objective, v)}

\* What prob.solve(PULP_CBC_CMD(msg=0)) can do.  A solver that works answers
\* Optimal with an optimal point when the model has one and a status that is
\* not Optimal otherwise; a solver that fails may also answer a status that is
\* not Optimal for any model, or raise.  The values left in the variables by
\* an answer that is not Optimal are never read.
SolverOutcomes(m, faulty) ==
    LET opt == OptimalPoints(m)
    IN {[status |-> "Optimal", values |-> v] : v \in opt}
       \cup (IF opt = {} \/ faulty
             THEN {[status |-> "NotOptimal", values |-> [n \in m.names |-> 0]]} ELSE {})
       \cup (IF faulty
             THEN {[status |-> "Raised", values |-> [n \in m.names |-> 0]]} ELSE {})

\* --------------------------------------------------------- result extractor
NoneValue == "<None>"

\* int(varValue + 0.5) on an integer-valued varValue v.
RoundCount(v) == (2 * v + 1) \div 2

\* Mutant: the gold of an allocation is per second, not per minute.
AllocationPerSecond(r, rate, count) ==
    [name |-> r.name, count |-> count, tier |-> r.tier,
     production |-> rate * count,
     gpm |-> rate * count * r.goldGain]

Allocation(r, rate, count) ==
    [name |-> r.name, count |-> count, tier |-> r.tier,
     production |-> rate * count,
     gpm |-> rate * count * r.goldGain * SecondsPerMinute]

\* Mutant: only negative counts are skipped.
RECURSIVE AllocationsKeepZero(_, _, _, _)
AllocationsKeepZero(rs, rates, order, values) ==
    IF order = << >> THEN << >>
    ELSE LET n == Head(order)
             count == RoundCount(values[n])
             rest == AllocationsKeepZero(rs, rates, Tail(order), values)
         IN IF count < 0 THEN rest
            ELSE <<Allocation(Recipe(rs, n), rates[n], count)>> \o rest

\* The loop over build_order: recipes with count <= 0 are skipped.
RECURSIVE Allocations(_, _, _, _)
Allocations(rs, rates, order, values) ==
    IF order = << >> THEN << >>
    ELSE LET n == Head(order)
             count == RoundCount(values[n])
             rest == Allocations(rs, rates, Tail(order), values)
         IN IF count <= 0 THEN rest
            ELSE <<Allocation(Recipe(rs, n), rates[n], count)>> \o rest

RECURSIVE SeqSum(_, _)
SeqSum(s, field) == IF s = << >> THEN 0 ELSE Head(s)[field] + SeqSum(Tail(s), field)

\* resource_flows over the used recipes.
FlowKeys(rs, allocs) ==
    UNION {DOMAIN Recipe(rs, allocs[i].name).outputs
             \cup (DOMAIN Recipe(rs, allocs[i].name).inputs \ {ExemptResource})
           : i \in 1..Len(allocs)}

RECURSIVE Flow(_, _, _)
Flow(rs, allocs, res) ==
    IF allocs = << >> THEN 0
    ELSE LET a == Head(allocs)
             r == Recipe(rs, a.name)
         IN Qty(r.outputs, res) * a.production
            - (IF res # ExemptResource THEN Qty(r.inputs, res) * a.production ELSE 0)
            + Flow(rs, Tail(allocs), res)

ResourceFlows(rs, allocs) == [res \in FlowKeys(rs, allocs) |-> Flow(rs, allocs, res)]

\* The achieved tier: the first allocation whose tier is strictly above all
\* earlier ones wins, starting from ("None", 0).
RECURSIVE AchievedTier(_, _)
AchievedTier(allocs, best) ==
    IF allocs = << >> THEN best
    ELSE AchievedTier(Tail(allocs),
                      IF Head(allocs).tier > best.value
                      THEN [name |-> Head(allocs).name, value |-> Head(allocs).tier]
                      ELSE best)

\* Mutant: the build order is reported unfiltered.
FilteredBuildOrderAll(order, allocs) == order

FilteredBuildOrder(order, allocs) ==
    SelectSeq(order, LAMBDA n : \E i \in 1..Len(allocs) : allocs[i].name = n)

\* _parse_results
ParseResults(rs, rates, order, values, mode, target) ==
    LET allocs == Allocations(rs, rates, order, values)
        achieved == AchievedTier(allocs, [name |-> "None", value |-> 0])
    IN [isNone |-> FALSE,
        allocations |-> allocs,
        total_gpm |-> SeqSum(allocs, "gpm"),
        mode |-> mode,
        target_tier |-> target,
        achieved_tier_name |-> achieved.name,
        achieved_tier_value |-> achieved.value,
        build_order |-> FilteredBuildOrder(order, allocs),
        resource_balance |-> ResourceFlows(rs, allocs)]

\* ----------------------------------------------------------------- actions
\* FactoryOptimizer.__init__
Construct ==
    /\ pc = "new"
    /\ LET rs == CleanRecipes(recipes)
           graph == DependencyGraph(rs)
       IN /\ recipes' = rs
          /\ effective_rate' = [n \in NameSet(rs) |->
                                  EffectiveRate(Recipe(rs, n), rate_multiplier, factory_level)]
          /\ gpm_per_unit' = [n \in NameSet(rs) |->
                                GpmPerUnit(Recipe(rs, n), rate_multiplier, factory_level)]
          /\ dependency_graph' = graph
          /\ IF FindCycle(graph, Names(rs))
             THEN /\ build_order' = << >>
                  /\ pc' = "CycleError"
             ELSE /\ \E ord \in HashOrders(NameSet(rs)) :
                        build_order' = StaticOrder(graph, Names(rs), ord)
                  /\ pc' = "ready"
    /\ UNCHANGED <<rate_multiplier, factory_level, total_factories,
                   tier_pos, solver_status, gpm_result, tier_result>>

\* Mutant: every status the solver answers is taken as a solution.
GpmReturnsAnyStatus(out) == out.status \in {"Optimal", "NotOptimal"}

\* optimize_gpm: if prob.solve(...) != LpStatusOptimal: return None
GpmReturns(out) == out.status = "Optimal"

\* optimize_tiers: the solve is Optimal and vars[target_tier].varValue > 0
TierAccepts(out, target) == out.status = "Optimal" /\ out.values[target] > 0

\* optimize_gpm
OptimizeGpm(faulty) ==
    /\ pc = "ready"
    /\ LET m == LpModel(recipes, effective_rate, build_order,
                        GpmObjective(recipes, gpm_per_unit), total_factories)
       IN \E out \in SolverOutcomes(m, faulty) :
            /\ solver_status' = out.status
            /\ gpm_result' = IF out.status # "Raised" /\ GpmReturns(out)
                             THEN ParseResults(recipes, effective_rate, build_order,
                                               out.values, "GPM", NoneValue)
                             ELSE NoResult
            /\ pc' = IF out.status = "Raised" THEN "SolverError" ELSE "tiers"
    /\ tier_pos' = 1
    /\ UNCHANGED <<recipes, rate_multiplier, factory_level, total_factories,
                   effective_rate, gpm_per_unit, dependency_graph, build_order,
                   tier_result>>

\* optimize_tiers: one pass of the loop over reversed(build_order).
TierAttempt(faulty) ==
    /\ pc = "tiers"
    /\ tier_pos <= Len(build_order)
    /\ LET target == Reverse(build_order)[tier_pos]
           m == LpModel(recipes, effective_rate, build_order,
                        TierObjective(recipes, effective_rate, target), total_factories)
       IN \E out \in SolverOutcomes(m, faulty) :
            /\ solver_status' = out.status
            /\ IF out.status = "Raised"
               THEN /\ pc' = "SolverError"
                    /\ UNCHANGED <<tier_pos, tier_result>>
               ELSE IF TierAccepts(out, target)
               THEN /\ pc' = "done"
                    /\ tier_result' = ParseResults(recipes, effective_rate, build_order,
                                                   out.values, "Tier", target)
                    /\ UNCHANGED tier_pos
               ELSE /\ pc' = "tiers"
                    /\ tier_pos' = tier_pos + 1
                    /\ UNCHANGED tier_result
    /\ UNCHANGED <<recipes, rate_multiplier, factory_level, total_factories,
                   effective_rate, gpm_per_unit, dependency_graph, build_order,
                   gpm_result>>

\* optimize_tiers: the loop is exhausted, return None.
TiersExhausted ==
    /\ pc = "tiers"
    /\ tier_pos > Len(build_order)
    /\ pc' = "done"
    /\ tier_result' = NoResult
    /\ UNCHANGED <<recipes, rate_multiplier, factory_level, total_factories,
                   effective_rate, gpm_per_unit, dependency_graph, build_order,
                   tier_pos, solver_status, gpm_result>>

Next == Construct \/ OptimizeGpm(FALSE) \/ TierAttempt(FALSE) \/ TiersExhausted

NextFaulty == Construct \/ OptimizeGpm(TRUE) \/ TierAttempt(TRUE) \/ TiersExhausted

Spec == Init /\ [][Next]_vars

SpecFaulty == InitSmall /\ [][NextFaulty]_vars

\* ------------------------------------------------------------------ claims
GpmReturned == ~gpm_result.isNone

TierReturned == ~tier_result.isNone

Returned == (IF GpmReturned THEN {gpm_result} ELSE {})
            \cup (IF TierReturned THEN {tier_result} ELSE {})

Counts(res) == [i \in 1..Len(res.allocations) |-> res.allocations[i].count]

UsedNames(res) == {res.allocations[i].name : i \in 1..Len(res.allocations)}

RECURSIVE SumSeq(_)
SumSeq(s) == IF s = << >> THEN 0 ELSE Head(s) + SumSeq(Tail(s))

\* The quantities of the specification, from the recipe records and the
\* configuration alone.
ClaimRate(n) == Recipe(recipes, n).baseRate * Pow(rate_multiplier, factory_level - 1)

ClaimResources ==
    UNION {DOMAIN recipes[i].inputs \cup DOMAIN recipes[i].outputs : i \in 1..Len(recipes)}
    \ {ExemptResource}

ClaimNetFlow(v, res) ==
    SumOver([n \in DOMAIN v |->
               (Qty(Recipe(recipes, n).outputs, res) - Qty(Recipe(recipes, n).inputs, res))
               * ClaimRate(n) * v[n]], DOMAIN v)

ClaimFeasible(v) ==
    /\ SumOver(v, DOMAIN v) <= total_factories
    /\ \A res \in ClaimResources : ClaimNetFlow(v, res) >= 0

ClaimGpm(v) ==
    SumOver([n \in DOMAIN v |->
               ClaimRate(n) * Recipe(recipes, n).goldGain * SecondsPerMinute * v[n]], DOMAIN v)

ClaimPoints == [NameSet(recipes) -> 0..total_factories]

\* C1: whenever optimize_gpm returns a result, no assignment of non-negative
\* integer counts that respects the capacity and the resource balance has a
\* total GPM above the result's total_gpm.
C1_GpmOptimal ==
    GpmReturned =>
        \A v \in ClaimPoints : ClaimFeasible(v) => ClaimGpm(v) <= gpm_result.total_gpm

\* A returned GPM result that spends factories on two recipes while another
\* feasible assignment earns less.
C1_Witness ==
    /\ GpmReturned
    /\ Len(gpm_result.allocations) >= 2
    /\ \E v \in ClaimPoints :
          ClaimFeasible(v) /\ 0 < ClaimGpm(v) /\ ClaimGpm(v) < gpm_result.total_gpm

\* C2: whenever optimize_tiers returns a result, the tier of the returned
\* target is the maximum tier over the recipes that some feasible assignment
\* gives a positive count.
Producible(n) == \E v \in ClaimPoints : ClaimFeasible(v) /\ v[n] > 0

C2_TierOptimal ==
    TierReturned =>
        \A n \in NameSet(recipes) :
            Producible(n) =>
                Recipe(recipes, n).tier <= Recipe(recipes, tier_result.target_tier).tier

\* C3 as stated: a call that ends with no recipe at a positive count returns
\* None, in both modes.
C3_EmptyIsNone ==
    /\ pc \in {"tiers", "done"} => (gpm_result.isNone \/ gpm_result.allocations # << >>)
    /\ pc = "done" => (tier_result.isNone \/ tier_result.allocations # << >>)

\* C3 amended: optimize_tiers returns None when no candidate gets a positive
\* count, so with no factories it returns None; optimize_gpm returns a result
\* whenever the solver answers Optimal, and with no factories that result has
\* no allocation, total_gpm 0 and the achieved tier ("None", 0).
C3_EmptyResult ==
    /\ pc = "done" => (tier_result.isNone \/ tier_result.allocations # << >>)
    /\ (pc = "done" /\ total_factories = 0) => tier_result.isNone
    /\ pc \in {"tiers", "done"} => GpmReturned
    /\ (pc \in {"tiers", "done"} /\ total_factories = 0) =>
          /\ gpm_result.allocations = << >>
          /\ gpm_result.total_gpm = 0
          /\ gpm_result.achieved_tier_name = "None"
          /\ gpm_result.achieved_tier_value = 0
          /\ gpm_result.build_order = << >>

\* Both calls made with no factories.
C3_Witness ==
    /\ pc = "done"
    /\ total_factories = 0
    /\ Len(recipes) >= 2
    /\ GpmReturned
    /\ tier_result.isNone

\* The scenario of C4.
ScenarioA == MkRecipe("A", EmptyMap, Single("X", 1), 1, 1, 1)

ScenarioB == MkRecipe("B", Single("X", 1), Single("Y", 1), 1, 10, 2)

Scenario ==
    /\ recipes = <<ScenarioA, ScenarioB>>
    /\ rate_multiplier = 1
    /\ factory_level = 1
    /\ total_factories = 2

ScenarioResult(total) ==
    /\ GpmReturned
    /\ Len(gpm_result.allocations) = 2
    /\ \E i \in 1..2 : /\ gpm_result.allocations[i].name = "A"
                       /\ gpm_result.allocations[i].count = 1
    /\ \E i \in 1..2 : /\ gpm_result.allocations[i].name = "B"
                       /\ gpm_result.allocations[i].count = 1
    /\ "X" \in DOMAIN gpm_result.resource_balance
    /\ gpm_result.resource_balance["X"] = 0
    /\ gpm_result.total_gpm = total
    /\ gpm_result.achieved_tier_value = 2
    /\ gpm_result.achieved_tier_name = "B"

\* C4 as stated: in the scenario optimize_gpm gives one factory to A and one
\* to B, a balance of 0 for X, total_gpm 600 and achieved tier 2 by B.
C4_Scenario600 == (Scenario /\ pc \in {"tiers", "done"}) => ScenarioResult(600)

\* C4 amended: the same result with total_gpm 660 (60 from A and 600 from B).
C4_Scenario660 == (Scenario /\ pc \in {"tiers", "done"}) => ScenarioResult(660)

C4_Witness == Scenario /\ pc = "tiers" /\ GpmReturned /\ gpm_result.total_gpm > 0

C6_Capacity ==
    \A res \in Returned :
        /\ \A i \in 1..Len(res.allocations) :
              res.allocations[i].count \in Nat \ {0}
        /\ SumSeq(Counts(res)) <= total_factories

\* A returned result that uses every factory on two recipes.
C6_Witness ==
    \E res \in Returned :
        /\ Len(res.allocations) >= 2
        /\ SumSeq(Counts(res)) = total_factories

\* C7: in every returned result every resource of the resource_balance map
\* but the exempt one has a non-negative net flow, and that flow is the sum of
\* outputs times production minus inputs times production over the used
\* recipes.
ClaimFlow(res, x) ==
    SumSeq([i \in 1..Len(res.allocations) |->
              (Qty(Recipe(recipes, res.allocations[i].name).outputs, x)
               - Qty(Recipe(recipes, res.allocations[i].name).inputs, x))
              * res.allocations[i].production])

C7_Balance ==
    \A res \in Returned :
        \A x \in DOMAIN res.resource_balance \ {ExemptResource} :
            /\ res.resource_balance[x] >= 0
            /\ res.resource_balance[x] = ClaimFlow(res, x)

\* A returned result in which a used recipe consumes what another used recipe
\* makes.
C7_Witness ==
    \E res \in Returned :
        \E i, j \in 1..Len(res.allocations) :
            \E x \in DOMAIN Recipe(recipes, res.allocations[i].name).inputs :
                /\ x # ExemptResource
                /\ x \in DOMAIN Recipe(recipes, res.allocations[j].name).outputs

\* The dependency relation of C8: R depends on S when the name of S is an
\* input resource of R.
DependsOn(rs, r, s) == s \in NameSet(rs) /\ s \in DOMAIN Recipe(rs, r).inputs

RECURSIVE ReachableIn(_, _, _, _)
ReachableIn(rs, from, to, k) ==
    /\ k > 0
    /\ \/ DependsOn(rs, from, to)
       \/ \E mid \in NameSet(rs) :
             DependsOn(rs, from, mid) /\ ReachableIn(rs, mid, to, k - 1)

Cyclic(rs) == \E n \in NameSet(rs) : ReachableIn(rs, n, n, Len(rs))

\* C8: when the dependency relation of the registry has a cycle, construction
\* fails with the cycle error and no solve is ever attempted.
C8_CycleFails ==
    Cyclic(CleanRecipes(recipes)) =>
        /\ pc \in {"new", "CycleError"}
        /\ solver_status = "none"
        /\ gpm_result.isNone
        /\ tier_result.isNone

\* Construction has failed on a cycle through two or more recipes.
C8_Witness ==
    /\ pc = "CycleError"
    /\ \A n \in NameSet(recipes) : ~DependsOn(recipes, n, n)

\* C9: in every returned result build_order holds exactly the recipes with a
\* positive count, each once, in the order of the full build order, and a
\* used recipe comes after every used recipe it depends on.
IsSubsequenceOf(sub, full) ==
    /\ \A i, j \in 1..Len(sub) : i # j => sub[i] # sub[j]
    /\ Range(sub) \subseteq Range(full)
    /\ \A i, j \in 1..Len(sub) :
          i < j => IndexOf(full, sub[i]) < IndexOf(full, sub[j])

C9_FilteredOrder ==
    \A res \in Returned :
        /\ Range(res.build_order) = UsedNames(res)
        /\ IsSubsequenceOf(res.build_order, build_order)
        /\ \A i, j \in 1..Len(res.build_order) :
              DependsOn(recipes, res.build_order[i], res.build_order[j]) => j < i

\* A returned result that uses a recipe and a recipe it depends on, and not
\* every recipe.
C9_Witness ==
    \E res \in Returned :
        /\ Len(res.build_order) < Len(build_order)
        /\ \E i, j \in 1..Len(res.build_order) :
              DependsOn(recipes, res.build_order[i], res.build_order[j])

\* The order of C10: at every step the earliest declared recipe among those
\* whose dependencies have all been emitted comes next.
RECURSIVE DeclarationOrderSort(_, _)
DeclarationOrderSort(rs, emitted) ==
    LET ready == {i \in 1..Len(rs) :
                    /\ rs[i].name \notin Range(emitted)
                    /\ \A s \in NameSet(rs) :
                          DependsOn(rs, rs[i].name, s) => s \in Range(emitted)}
    IN IF ready = {} THEN emitted
       ELSE LET first == CHOOSE i \in ready : \A j \in ready : i <= j
            IN DeclarationOrderSort(rs, Append(emitted, rs[first].name))

Constructed == pc \notin {"new", "CycleError"}

====
